---- MODULE Spec2Model ----
(***************************************************************************)
(* Retro Video Game Exchange API: the trade-offer lifecycle engine         *)
(* (Lab1/app/routes/trade_offers.py) over the user, game and trade-offer   *)
(* tables, with HTTP Basic authentication (Lab1/app/auth.py).              *)
(***************************************************************************)
EXTENDS Integers, Sequences, FiniteSets, TLC

VARIABLES
    users,      \* users table: id -> [name, email, password]
    games,      \* games table: id -> [owner_id]
    offers,     \* trade_offers table: id -> row (ids 1..Len, rows are never deleted)
    now,        \* the clock read by datetime.utcnow()
    resp,       \* the response of the last request: [op, code, detail]
    procs       \* requests in flight: one record per concurrent handler

vars == <<users, games, offers, now, resp, procs>>

------------------------------------------------------------------------------
(* Bounds of the model *)

\* the last reading of the clock a run may take
MaxTime == 3

\* the greatest id a user row may take
MaxUserId == 4

------------------------------------------------------------------------------
(* TradeOfferStatus, models/trade_offer.py *)

PENDING == "pending"
ACCEPTED == "accepted"
REJECTED == "rejected"
CANCELLED == "cancelled"

TradeOfferStatus == {PENDING, ACCEPTED, REJECTED, CANCELLED}

\* a NULL column value (responded_at is nullable); clock readings start at 1
NULL == 0

\* TradeOfferBase.message: Optional[str] = None
Messages == {"None"}

------------------------------------------------------------------------------
(* Passwords: passlib's bcrypt context, auth.py *)

\* A stored credential is [bcrypt |-> TRUE, text |-> p] for a bcrypt hash of p
\* (the salt is abstracted) and [bcrypt |-> FALSE, text |-> p] for the text p itself;
\* no client password is itself the text of a bcrypt hash.
get_password_hash(password) == [bcrypt |-> TRUE, text |-> password]

\* a password column assigned the request's password as it is
AsSupplied(password) == [bcrypt |-> FALSE, text |-> password]

\* CryptContext(schemes=["bcrypt"]) identifies the stored string as a hash of its scheme
identify(hashed_password) == hashed_password.bcrypt

\* password_hashing_context.verify on a string the context identifies; on any other
\* string verify raises UnknownHashError (see get_current_authenticated_user)
verify_password(plain_password, hashed_password) ==
    hashed_password.bcrypt /\ hashed_password.text = plain_password

------------------------------------------------------------------------------
(* Seed data, seed_data.py *)

users_data ==
    << [name |-> "Alice Gamer", email |-> "alice@example.com",
        password |-> get_password_hash("gamer123")],
       [name |-> "Bob Trader", email |-> "bob@example.com",
        password |-> get_password_hash("trader456")],
       [name |-> "Carol Swapper", email |-> "carol@example.com",
        password |-> get_password_hash("swapper789")] >>

\* Alice owns Minecraft, Bob owns Animal Crossing, Carol owns Among Us
games_data == << [owner_id |-> 1], [owner_id |-> 2], [owner_id |-> 3] >>

------------------------------------------------------------------------------
(* Request inputs *)

\* HTTP Basic credential pairs presented by clients
Credentials ==
    { [username |-> "alice@example.com", password |-> "gamer123"],
      [username |-> "bob@example.com",   password |-> "trader456"],
      [username |-> "carol@example.com", password |-> "swapper789"],
      [username |-> "alice@example.com", password |-> "trader456"],
      [username |-> "mallory@example.com", password |-> "gamer123"] }

\* ids a client may name: the id of every row there can be and one id of no row
UserIdInputs == 1..(Len(users_data) + 1)
GameIdInputs == 1..(Len(games_data) + 1)
OfferIdInputs == 1..(Len(offers) + 1)

\* POST /trade-offers bodies <<requested_game_id, recipient_id>>: every pair of rows,
\* a game of no row and a recipient of no row
CreateInputs ==
    ((DOMAIN games_data) \X (DOMAIN users_data))
        \cup { <<Len(games_data) + 1, 1>>, <<1, Len(users_data) + 1>> }

\* PUT /games/{id} requests <<game_id, owner_id>>: Carol's game (3) passes to Alice (1),
\* who then owns two games while Carol owns none; a game of no row (4); an owner of
\* no row (4)
ReplaceGameInputs == { <<3, 1>>, <<4, 1>>, <<3, 4>> }

\* an optional query parameter: None when the client did not supply it, Some(v) when
\* the client supplied v
None == << >>
Some(v) == <<v>>

\* GET /trade-offers query strings <<status, recipient_id, proposer_id>>: no filter,
\* one filter of each kind, and recipient_id=0
ListInputs ==
    { <<None, None, None>>, <<Some(PENDING), None, None>>,
      <<None, Some(2), None>>, <<None, None, Some(1)>>, <<None, Some(0), None>> }

------------------------------------------------------------------------------
(* Responses *)

\* a response: the status code, the detail of an HTTPException and the offers of the
\* body (none in an error response and in a 204)
Response(op, code, msg, arg) ==
    [op |-> op, code |-> code, detail |-> [msg |-> msg, arg |-> arg], body |-> << >>]

\* a response whose body carries offers
ResponseWith(op, code, body) == [Response(op, code, "", "") EXCEPT !.body = body]

\* the outcome of a handler's checks: a status code and the HTTPException detail
Result(code, msg, arg) == [code |-> code, msg |-> msg, arg |-> arg]

Ok(code) == Result(code, "", "")

HTTPException(code, msg) == Result(code, msg, "")

------------------------------------------------------------------------------
(* Authentication, auth.py *)

\* the first user row with this email, or 0
UserByEmail(email) ==
    IF \E u \in DOMAIN users : users[u].email = email
    THEN CHOOSE u \in DOMAIN users :
            /\ users[u].email = email
            /\ \A v \in DOMAIN users : users[v].email = email => u <= v
    ELSE 0

\* the outcome of the dependency when verify_password raises
UnknownHashError == -1

\* get_current_authenticated_user: the authenticated user's id, 0 for 401, or
\* UnknownHashError when the stored password is no bcrypt hash
get_current_authenticated_user(credentials) ==
    LET authenticated_user == UserByEmail(credentials.username)
    IN  IF authenticated_user = 0 THEN 0
        ELSE IF ~identify(users[authenticated_user].password) THEN UnknownHashError
        ELSE IF ~verify_password(credentials.password, users[authenticated_user].password) THEN 0
        ELSE authenticated_user

Unauthorized == HTTPException(401, "Invalid email or password")

\* an exception no handler of main.py catches
InternalServerError == HTTPException(500, "Internal Server Error")

\* the response when the dependency returns no user
AuthenticationFailure(current_user) ==
    IF current_user = UnknownHashError THEN InternalServerError ELSE Unauthorized

------------------------------------------------------------------------------
(* Initial state: main.py creates empty tables *)

NoProcs == << >>

Init ==
    /\ users = << >>
    /\ games = << >>
    /\ offers = << >>
    /\ now = 1
    /\ resp = Response("start", 0, "", "")
    /\ procs = NoProcs

\* seed_data.py create_sample_data: runs only on an empty users table
create_sample_data ==
    /\ Cardinality(DOMAIN users) = 0
    /\ users' = users_data
    /\ games' = games_data
    /\ resp' = Response("seed", 0, "", "")
    /\ UNCHANGED <<offers, now, procs>>

------------------------------------------------------------------------------
(* Queries *)

RECURSIVE NaturalOrder(_)
\* the rows of a query without ORDER BY, in the table's rowid (primary key) order
NaturalOrder(ids) ==
    IF ids = {} THEN << >>
    ELSE LET first == CHOOSE i \in ids : \A j \in ids : i <= j
         IN  <<first>> \o NaturalOrder(ids \ {first})

\* db.query(Game).filter(Game.owner_id == current_user.id).all()
users_games(current_user) ==
    NaturalOrder({g \in DOMAIN games : games[g].owner_id = current_user})

\* the last of the caller's games instead of the first
offered_game_last(current_user) ==
    users_games(current_user)[Len(users_games(current_user))]

\* the game create_trade_offer offers: users_games[0]
offered_game(current_user) == Head(users_games(current_user))

\* a duplicate check that finds nothing
existing_offer_never(proposer_id, recipient_id, offered_game_id, requested_game_id) == FALSE

\* a duplicate check that does not filter on status
existing_offer_any_status(proposer_id, recipient_id, offered_game_id, requested_game_id) ==
    \E i \in DOMAIN offers :
        /\ offers[i].proposer_id = proposer_id
        /\ offers[i].recipient_id = recipient_id
        /\ offers[i].offered_game_id = offered_game_id
        /\ offers[i].requested_game_id = requested_game_id

\* the PENDING offer with this tuple that create_trade_offer looks for
existing_offer(proposer_id, recipient_id, offered_game_id, requested_game_id) ==
    \E i \in DOMAIN offers :
        /\ offers[i].proposer_id = proposer_id
        /\ offers[i].recipient_id = recipient_id
        /\ offers[i].offered_game_id = offered_game_id
        /\ offers[i].requested_game_id = requested_game_id
        /\ offers[i].status = PENDING

\* TradeOfferResponse: the representation of an offer row
TradeOfferResponse(offer_id, offer) == [id |-> offer_id] @@ offer

RECURSIVE OrderByCreatedAtDesc(_)
\* query.order_by(TradeOffer.created_at.desc()).all(): every create reads a later
\* clock, so no two rows tie on created_at
OrderByCreatedAtDesc(ids) ==
    IF ids = {} THEN << >>
    ELSE LET first == CHOOSE i \in ids :
                        \A j \in ids : offers[j].created_at <= offers[i].created_at
         IN  <<TradeOfferResponse(first, offers[first])>>
                 \o OrderByCreatedAtDesc(ids \ {first})

------------------------------------------------------------------------------
(* GET /trade-offers *)

\* `if status_filter:` on an Optional[TradeOfferStatus]: every member is a non-empty str
StatusFilterApplies(status_filter) == status_filter # None

\* `if recipient_id_filter:` on an Optional[int]: None and 0 are both false
IdFilterApplies(id_filter) == id_filter # None /\ id_filter[1] # 0

\* the caller's offers in the order of their ids, oldest first
get_trade_offers_rows_oldest_first(current_user, status_filter, recipient_id_filter, proposer_id_filter) ==
    LET ids == NaturalOrder({i \in DOMAIN offers :
                   offers[i].proposer_id = current_user \/ offers[i].recipient_id = current_user})
    IN  [k \in DOMAIN ids |-> TradeOfferResponse(ids[k], offers[ids[k]])]

\* a list that leaves out the cancelled offers
get_trade_offers_rows_without_cancelled(current_user, status_filter, recipient_id_filter, proposer_id_filter) ==
    OrderByCreatedAtDesc(
        {i \in DOMAIN offers :
            /\ offers[i].proposer_id = current_user \/ offers[i].recipient_id = current_user
            /\ offers[i].status # CANCELLED})

\* the rows get_trade_offers returns, in order
get_trade_offers_rows(current_user, status_filter, recipient_id_filter, proposer_id_filter) ==
    OrderByCreatedAtDesc(
        {i \in DOMAIN offers :
            /\ offers[i].proposer_id = current_user \/ offers[i].recipient_id = current_user
            /\ StatusFilterApplies(status_filter) => offers[i].status = status_filter[1]
            /\ IdFilterApplies(recipient_id_filter) =>
                    offers[i].recipient_id = recipient_id_filter[1]
            /\ IdFilterApplies(proposer_id_filter) =>
                    offers[i].proposer_id = proposer_id_filter[1]})

\* the response of the request: the dependency get_current_authenticated_user runs first
get_trade_offers_response(credentials, status_filter, recipient_id_filter, proposer_id_filter) ==
    LET current_user == get_current_authenticated_user(credentials)
        failure == AuthenticationFailure(current_user)
    IN  IF current_user <= 0
        THEN Response("list", failure.code, failure.msg, failure.arg)
        ELSE ResponseWith("list", 200,
                 get_trade_offers_rows(current_user, status_filter, recipient_id_filter,
                                       proposer_id_filter))

get_trade_offers(credentials, status_filter, recipient_id_filter, proposer_id_filter) ==
    /\ resp' = get_trade_offers_response(credentials, status_filter, recipient_id_filter,
                                         proposer_id_filter)
    /\ UNCHANGED <<users, games, offers, now, procs>>

------------------------------------------------------------------------------
(* GET /trade-offers/{offer_id} *)

\* get_trade_offer that returns every offer there is to every caller
get_trade_offer_checks_any_caller(current_user, offer_id) ==
    IF offer_id \notin DOMAIN offers
    THEN HTTPException(404, "Trade offer not found")
    ELSE Ok(200)

\* the checks of get_trade_offer, in the handler's order
get_trade_offer_checks(current_user, offer_id) ==
    IF offer_id \notin DOMAIN offers
    THEN HTTPException(404, "Trade offer not found")
    ELSE IF current_user # offers[offer_id].proposer_id
            /\ current_user # offers[offer_id].recipient_id
    THEN HTTPException(403, "You are not authorized to view this trade offer")
    ELSE Ok(200)

get_trade_offer_result(credentials, offer_id) ==
    LET current_user == get_current_authenticated_user(credentials)
    IN  IF current_user <= 0 THEN AuthenticationFailure(current_user)
        ELSE get_trade_offer_checks(current_user, offer_id)

get_trade_offer_response(credentials, offer_id) ==
    LET r == get_trade_offer_result(credentials, offer_id)
    IN  IF r.code = 200
        THEN ResponseWith("read", 200, <<TradeOfferResponse(offer_id, offers[offer_id])>>)
        ELSE Response("read", r.code, r.msg, r.arg)

get_trade_offer(credentials, offer_id) ==
    /\ resp' = get_trade_offer_response(credentials, offer_id)
    /\ UNCHANGED <<users, games, offers, now, procs>>

------------------------------------------------------------------------------
(* POST /trade-offers *)

\* create_trade_offer without its check that the caller is not the recipient
create_trade_offer_checks_self_allowed(current_user, requested_game_id, recipient_id) ==
    IF requested_game_id \notin DOMAIN games
    THEN HTTPException(404, "Requested game not found")
    ELSE IF recipient_id \notin DOMAIN users
    THEN HTTPException(404, "Recipient user not found")
    ELSE IF games[requested_game_id].owner_id # recipient_id
    THEN HTTPException(400, "Requested game is not owned by the specified recipient")
    ELSE IF users_games(current_user) = << >>
    THEN HTTPException(400, "You must own at least one game to create a trade offer")
    ELSE IF existing_offer(current_user, recipient_id, offered_game(current_user),
                           requested_game_id)
    THEN HTTPException(400, "A pending trade offer for these games already exists")
    ELSE Ok(201)

\* create_trade_offer without its check that the recipient owns the requested game
create_trade_offer_checks_any_owner(current_user, requested_game_id, recipient_id) ==
    IF requested_game_id \notin DOMAIN games
    THEN HTTPException(404, "Requested game not found")
    ELSE IF recipient_id \notin DOMAIN users
    THEN HTTPException(404, "Recipient user not found")
    ELSE IF current_user = recipient_id
    THEN HTTPException(400, "Cannot create a trade offer for yourself")
    ELSE IF users_games(current_user) = << >>
    THEN HTTPException(400, "You must own at least one game to create a trade offer")
    ELSE IF existing_offer(current_user, recipient_id, offered_game(current_user),
                           requested_game_id)
    THEN HTTPException(400, "A pending trade offer for these games already exists")
    ELSE Ok(201)

\* create_trade_offer with the self-trade check ahead of the ownership check
create_trade_offer_checks_self_first(current_user, requested_game_id, recipient_id) ==
    IF requested_game_id \notin DOMAIN games
    THEN HTTPException(404, "Requested game not found")
    ELSE IF recipient_id \notin DOMAIN users
    THEN HTTPException(404, "Recipient user not found")
    ELSE IF current_user = recipient_id
    THEN HTTPException(400, "Cannot create a trade offer for yourself")
    ELSE IF games[requested_game_id].owner_id # recipient_id
    THEN HTTPException(400, "Requested game is not owned by the specified recipient")
    ELSE IF users_games(current_user) = << >>
    THEN HTTPException(400, "You must own at least one game to create a trade offer")
    ELSE IF existing_offer(current_user, recipient_id, offered_game(current_user),
                           requested_game_id)
    THEN HTTPException(400, "A pending trade offer for these games already exists")
    ELSE Ok(201)

\* the checks of create_trade_offer, in the handler's order
create_trade_offer_checks(current_user, requested_game_id, recipient_id) ==
    IF requested_game_id \notin DOMAIN games
    THEN HTTPException(404, "Requested game not found")
    ELSE IF recipient_id \notin DOMAIN users
    THEN HTTPException(404, "Recipient user not found")
    ELSE IF games[requested_game_id].owner_id # recipient_id
    THEN HTTPException(400, "Requested game is not owned by the specified recipient")
    ELSE IF current_user = recipient_id
    THEN HTTPException(400, "Cannot create a trade offer for yourself")
    ELSE IF users_games(current_user) = << >>
    THEN HTTPException(400, "You must own at least one game to create a trade offer")
    ELSE IF existing_offer(current_user, recipient_id, offered_game(current_user),
                           requested_game_id)
    THEN HTTPException(400, "A pending trade offer for these games already exists")
    ELSE Ok(201)

\* the row create_trade_offer inserts; created_at and updated_at take the column defaults
new_offer(current_user, requested_game_id, recipient_id, message) ==
    [ proposer_id       |-> current_user,
      recipient_id      |-> recipient_id,
      offered_game_id   |-> offered_game(current_user),
      requested_game_id |-> requested_game_id,
      status            |-> PENDING,
      created_at        |-> now,
      updated_at        |-> now,
      responded_at      |-> NULL,
      message           |-> message ]

\* the outcome of the request: the dependency get_current_authenticated_user runs first
create_trade_offer_result(credentials, requested_game_id, recipient_id) ==
    LET current_user == get_current_authenticated_user(credentials)
    IN  IF current_user <= 0 THEN AuthenticationFailure(current_user)
        ELSE create_trade_offer_checks(current_user, requested_game_id, recipient_id)

create_trade_offer(credentials, requested_game_id, recipient_id, message) ==
    LET current_user == get_current_authenticated_user(credentials)
        r == create_trade_offer_result(credentials, requested_game_id, recipient_id)
        row == new_offer(current_user, requested_game_id, recipient_id, message)
    IN  /\ IF r.code = 201
           THEN /\ offers' = Append(offers, row)
                /\ now' = now + 1
                /\ resp' = ResponseWith("create", 201,
                                        <<TradeOfferResponse(Len(offers) + 1, row)>>)
           ELSE /\ resp' = Response("create", r.code, r.msg, r.arg)
                /\ UNCHANGED <<offers, now>>
        /\ UNCHANGED <<users, games, procs>>

------------------------------------------------------------------------------
(* PATCH /trade-offers/{offer_id} *)

\* the checks on the row without the check that the caller is the recipient
respond_to_trade_offer_row_checks_any_caller(current_user, offer, status) ==
    IF offer.status # PENDING
    THEN Result(400, "Cannot respond to an offer with status: ", offer.status)
    ELSE IF status \notin {ACCEPTED, REJECTED}
    THEN HTTPException(400, "Recipients can only accept or reject offers")
    ELSE Ok(200)

\* the checks on the row without the check that the offer is PENDING
respond_to_trade_offer_row_checks_any_status(current_user, offer, status) ==
    IF current_user # offer.recipient_id
    THEN HTTPException(403, "Only the recipient can respond to this trade offer")
    ELSE IF status \notin {ACCEPTED, REJECTED}
    THEN HTTPException(400, "Recipients can only accept or reject offers")
    ELSE Ok(200)

\* the checks on the row without the check of the requested status
respond_to_trade_offer_row_checks_any_target(current_user, offer, status) ==
    IF current_user # offer.recipient_id
    THEN HTTPException(403, "Only the recipient can respond to this trade offer")
    ELSE IF offer.status # PENDING
    THEN Result(400, "Cannot respond to an offer with status: ", offer.status)
    ELSE Ok(200)

\* the checks of respond_to_trade_offer on the row its query returned, in the
\* handler's order
respond_to_trade_offer_row_checks(current_user, offer, status) ==
    IF current_user # offer.recipient_id
    THEN HTTPException(403, "Only the recipient can respond to this trade offer")
    ELSE IF offer.status # PENDING
    THEN Result(400, "Cannot respond to an offer with status: ", offer.status)
    ELSE IF status \notin {ACCEPTED, REJECTED}
    THEN HTTPException(400, "Recipients can only accept or reject offers")
    ELSE Ok(200)

\* a respond that checks again that the requested game is the recipient's
respond_to_trade_offer_checks_revalidating(current_user, offer_id, status) ==
    IF offer_id \notin DOMAIN offers
    THEN HTTPException(404, "Trade offer not found")
    ELSE IF games[offers[offer_id].requested_game_id].owner_id # offers[offer_id].recipient_id
    THEN HTTPException(400, "Requested game is not owned by the specified recipient")
    ELSE respond_to_trade_offer_row_checks(current_user, offers[offer_id], status)

\* the query for the offer row, then the checks on it
respond_to_trade_offer_checks(current_user, offer_id, status) ==
    IF offer_id \notin DOMAIN offers
    THEN HTTPException(404, "Trade offer not found")
    ELSE respond_to_trade_offer_row_checks(current_user, offers[offer_id], status)

\* a respond that also stamps created_at
responded_offer_recreated(offer, status) ==
    [offer EXCEPT !.status = status, !.responded_at = now, !.updated_at = now + 1,
                  !.created_at = now]

\* the row after a successful respond: status and responded_at are assigned,
\* updated_at is touched by the UPDATE (onupdate)
responded_offer(offer, status) ==
    [offer EXCEPT !.status = status, !.responded_at = now, !.updated_at = now + 1]

respond_to_trade_offer_result(credentials, offer_id, status) ==
    LET current_user == get_current_authenticated_user(credentials)
    IN  IF current_user <= 0 THEN AuthenticationFailure(current_user)
        ELSE respond_to_trade_offer_checks(current_user, offer_id, status)

\* a respond that, on ACCEPTED, also hands each of the two games to the other party
respond_to_trade_offer_swapping(credentials, offer_id, status) ==
    LET r == respond_to_trade_offer_result(credentials, offer_id, status)
    IN  IF r.code = 200
        THEN /\ offers' = [offers EXCEPT ![offer_id] = responded_offer(@, status)]
             /\ now' = now + 2
             /\ resp' = ResponseWith("respond", 200,
                             <<TradeOfferResponse(offer_id, offers'[offer_id])>>)
             /\ games' = IF status = ACCEPTED
                         THEN [games EXCEPT
                                 ![offers[offer_id].offered_game_id].owner_id =
                                     offers[offer_id].recipient_id,
                                 ![offers[offer_id].requested_game_id].owner_id =
                                     offers[offer_id].proposer_id]
                         ELSE games
             /\ UNCHANGED <<users, procs>>
        ELSE /\ resp' = Response("respond", r.code, r.msg, r.arg)
             /\ UNCHANGED <<users, games, offers, now, procs>>

respond_to_trade_offer(credentials, offer_id, status) ==
    LET r == respond_to_trade_offer_result(credentials, offer_id, status)
    IN  /\ IF r.code = 200
           THEN /\ offers' = [offers EXCEPT ![offer_id] = responded_offer(@, status)]
                /\ now' = now + 2
                /\ resp' = ResponseWith("respond", 200,
                                <<TradeOfferResponse(offer_id, offers'[offer_id])>>)
           ELSE /\ resp' = Response("respond", r.code, r.msg, r.arg)
                /\ UNCHANGED <<offers, now>>
        /\ UNCHANGED <<users, games, procs>>

------------------------------------------------------------------------------
(* DELETE /trade-offers/{offer_id} *)

\* the checks on the row without the check that the caller is the proposer
cancel_trade_offer_row_checks_any_caller(current_user, offer) ==
    IF offer.status # PENDING
    THEN Result(400, "Cannot cancel an offer with status: ", offer.status)
    ELSE Ok(204)

\* the checks of cancel_trade_offer on the row its query returned, in the handler's order
cancel_trade_offer_row_checks(current_user, offer) ==
    IF current_user # offer.proposer_id
    THEN HTTPException(403, "Only the proposer can cancel this trade offer")
    ELSE IF offer.status # PENDING
    THEN Result(400, "Cannot cancel an offer with status: ", offer.status)
    ELSE Ok(204)

\* the query for the offer row, then the checks on it
cancel_trade_offer_checks(current_user, offer_id) ==
    IF offer_id \notin DOMAIN offers
    THEN HTTPException(404, "Trade offer not found")
    ELSE cancel_trade_offer_row_checks(current_user, offers[offer_id])

\* a cancel that stamps responded_at as a respond does
cancelled_offer_stamped(offer) ==
    [offer EXCEPT !.status = CANCELLED, !.responded_at = now, !.updated_at = now]

\* the row after a successful cancel: only status is assigned, updated_at is touched
cancelled_offer(offer) ==
    [offer EXCEPT !.status = CANCELLED, !.updated_at = now]

cancel_trade_offer_result(credentials, offer_id) ==
    LET current_user == get_current_authenticated_user(credentials)
    IN  IF current_user <= 0 THEN AuthenticationFailure(current_user)
        ELSE cancel_trade_offer_checks(current_user, offer_id)

\* a cancel that touches the row before it checks the row's status
cancel_trade_offer_touching(credentials, offer_id) ==
    LET r == cancel_trade_offer_result(credentials, offer_id)
    IN  /\ resp' = Response("cancel", r.code, r.msg, r.arg)
        /\ IF r.code = 204
           THEN /\ offers' = [offers EXCEPT ![offer_id] = cancelled_offer(@)]
                /\ now' = now + 1
           ELSE IF r.code = 400
           THEN /\ offers' = [offers EXCEPT ![offer_id].updated_at = now]
                /\ now' = now
           ELSE UNCHANGED <<offers, now>>
        /\ UNCHANGED <<users, games, procs>>

cancel_trade_offer(credentials, offer_id) ==
    LET r == cancel_trade_offer_result(credentials, offer_id)
    IN  /\ resp' = Response("cancel", r.code, r.msg, r.arg)
        /\ IF r.code = 204
           THEN /\ offers' = [offers EXCEPT ![offer_id] = cancelled_offer(@)]
                /\ now' = now + 1
           ELSE UNCHANGED <<offers, now>>
        /\ UNCHANGED <<users, games, procs>>

------------------------------------------------------------------------------
(* PUT /games/{game_id}: no authentication; owner_id is replaced *)

replace_game_checks(game_id, owner_id) ==
    IF game_id \notin DOMAIN games
    THEN HTTPException(404, "Game not found")
    ELSE IF owner_id \notin DOMAIN users
    THEN HTTPException(400, "Owner not found")
    ELSE Ok(200)

replace_game(game_id, owner_id) ==
    LET r == replace_game_checks(game_id, owner_id)
    IN  /\ resp' = Response("replace_game", r.code, r.msg, r.arg)
        /\ IF r.code = 200
           THEN games' = [games EXCEPT ![game_id].owner_id = owner_id]
           ELSE UNCHANGED games
        /\ UNCHANGED <<users, offers, now, procs>>

------------------------------------------------------------------------------
(* /users: no authentication, routes/users.py *)

\* the id the store gives the next user row
NextUserId ==
    IF DOMAIN users = {} THEN 1
    ELSE 1 + CHOOSE u \in DOMAIN users : \A v \in DOMAIN users : v <= u

\* POST /users: the email must be no user's
create_user_checks(user) ==
    IF \E u \in DOMAIN users : users[u].email = user.email
    THEN HTTPException(400, "Email already registered")
    ELSE Ok(201)

\* the row create_user inserts: the password is stored as supplied
create_user(user) ==
    LET r == create_user_checks(user)
    IN  /\ resp' = Response("create_user", r.code, r.msg, r.arg)
        /\ IF r.code = 201
           THEN users' = users @@ (NextUserId :>
                            [name |-> user.name, email |-> user.email,
                             password |-> AsSupplied(user.password)])
           ELSE UNCHANGED users
        /\ UNCHANGED <<games, offers, now, procs>>

\* replace_user without the check for another user with the email
replace_user_checks_no_conflict(user_id, user) ==
    IF user_id \notin DOMAIN users
    THEN HTTPException(404, "User not found")
    ELSE Ok(200)

\* PUT /users/{user_id}: the row must exist and the email must be no other user's
replace_user_checks(user_id, user) ==
    IF user_id \notin DOMAIN users
    THEN HTTPException(404, "User not found")
    ELSE IF \E u \in DOMAIN users : users[u].email = user.email /\ u # user_id
    THEN HTTPException(400, "Email already in use by another user")
    ELSE Ok(200)

\* replace_user assigns name, email and password (as supplied)
replace_user(user_id, user) ==
    LET r == replace_user_checks(user_id, user)
    IN  /\ resp' = Response("replace_user", r.code, r.msg, r.arg)
        /\ IF r.code = 200
           THEN users' = [users EXCEPT ![user_id] =
                            [name |-> user.name, email |-> user.email,
                             password |-> AsSupplied(user.password)]]
           ELSE UNCHANGED users
        /\ UNCHANGED <<games, offers, now, procs>>

\* PATCH /users/{user_id}: the row must exist
update_user_checks(user_id) ==
    IF user_id \notin DOMAIN users
    THEN HTTPException(404, "User not found")
    ELSE Ok(200)

\* update_user assigns the name when the body has one
update_user(user_id, user) ==
    LET r == update_user_checks(user_id)
    IN  /\ resp' = Response("update_user", r.code, r.msg, r.arg)
        /\ IF r.code = 200 /\ user.name # None
           THEN users' = [users EXCEPT ![user_id].name = user.name[1]]
           ELSE UNCHANGED users
        /\ UNCHANGED <<games, offers, now, procs>>

\* the rows that refer to the user: the delete sets their foreign key to NULL, which
\* the NOT NULL columns refuse
Referring(user_id) ==
    \/ \E g \in DOMAIN games : games[g].owner_id = user_id
    \/ \E i \in DOMAIN offers :
          offers[i].proposer_id = user_id \/ offers[i].recipient_id = user_id

\* DELETE /users/{user_id}
delete_user_checks(user_id) ==
    IF user_id \notin DOMAIN users
    THEN HTTPException(404, "User not found")
    ELSE IF Referring(user_id)
    THEN InternalServerError
    ELSE Ok(204)

delete_user(user_id) ==
    LET r == delete_user_checks(user_id)
    IN  /\ resp' = Response("delete_user", r.code, r.msg, r.arg)
        /\ IF r.code = 204
           THEN users' = [u \in DOMAIN users \ {user_id} |-> users[u]]
           ELSE UNCHANGED users
        /\ UNCHANGED <<games, offers, now, procs>>

------------------------------------------------------------------------------
(* The API with every request executed atomically *)

\* the clock is read at most MaxTime times
InTime == now' <= MaxTime + 1

\* the credential pairs that resolve to a user, and those that do not
Authenticated == {c \in Credentials : get_current_authenticated_user(c) > 0}
Rejected == Credentials \ Authenticated

\* A request with a rejected credential pair never reaches its handler's body:
\* one body stands for all of them.
Next ==
    \/ create_sample_data
    \/ \E c \in Authenticated, i \in CreateInputs, m \in Messages :
          create_trade_offer(c, i[1], i[2], m) /\ InTime
    \/ \E c \in Rejected : create_trade_offer(c, 1, 1, "None")
    \/ \E c \in Authenticated, o \in OfferIdInputs, s \in TradeOfferStatus :
          respond_to_trade_offer(c, o, s) /\ InTime
    \/ \E c \in Rejected : respond_to_trade_offer(c, 1, ACCEPTED)
    \/ \E c \in Authenticated, o \in OfferIdInputs : cancel_trade_offer(c, o) /\ InTime
    \/ \E c \in Rejected : cancel_trade_offer(c, 1)
    \/ \E i \in ReplaceGameInputs : replace_game(i[1], i[2])

Spec == Init /\ [][Next]_vars

------------------------------------------------------------------------------
(* The trade-offer endpoints with their reads: offers are created, responded to,   *)
(* cancelled, listed and read over the seeded users and games.                     *)

NextRead ==
    \/ create_sample_data
    \/ \E c \in Authenticated, i \in CreateInputs, m \in Messages :
          create_trade_offer(c, i[1], i[2], m) /\ InTime
    \/ \E c \in Authenticated, o \in OfferIdInputs, s \in TradeOfferStatus :
          respond_to_trade_offer(c, o, s) /\ InTime
    \/ \E c \in Authenticated, o \in OfferIdInputs : cancel_trade_offer(c, o) /\ InTime
    \/ \E c \in Credentials, f \in ListInputs : get_trade_offers(c, f[1], f[2], f[3])
    \/ \E c \in Credentials, o \in OfferIdInputs : get_trade_offer(c, o)

SpecRead == Init /\ [][NextRead]_vars

------------------------------------------------------------------------------
(* The user endpoints next to the trade-offer endpoints: users are registered,     *)
(* replaced, updated and deleted; clients ask Bob (2) for his game (2).            *)

\* POST /users and PUT /users/{id} bodies: Dave registers; a second body carries an
\* email of the seed data
UserCreateInputs ==
    { [name |-> "Dave", email |-> "dave@example.com", password |-> "hunter2"],
      [name |-> "Dave", email |-> "alice@example.com", password |-> "hunter2"] }

\* the ids PUT, PATCH and DELETE /users/{id} name: a user of the seed data, the last
\* id there can be, and an id of no row
UserIdTargets == {1, MaxUserId, MaxUserId + 1}

\* PATCH /users/{id} bodies: a new name, or none
UserUpdateInputs == { [name |-> Some("Dee")], [name |-> None] }

\* the credential pairs of the seed data, and Dave's with his password and another
UserCredentials ==
    Credentials \cup
        { [username |-> "dave@example.com", password |-> "hunter2"],
          [username |-> "dave@example.com", password |-> "trader456"] }

\* no user row has an id above MaxUserId
InUsers == \A u \in DOMAIN users' : u <= MaxUserId

NextUsers ==
    \/ create_sample_data
    \/ \E user \in UserCreateInputs : create_user(user) /\ InUsers
    \/ \E u \in UserIdTargets, user \in UserCreateInputs : replace_user(u, user)
    \/ \E u \in UserIdTargets, user \in UserUpdateInputs : update_user(u, user)
    \/ \E u \in UserIdTargets : delete_user(u)
    \/ \E c \in UserCredentials : create_trade_offer(c, 2, 2, "None") /\ InTime
    \/ \E c \in UserCredentials : respond_to_trade_offer(c, 1, ACCEPTED) /\ InTime
    \/ \E c \in UserCredentials : cancel_trade_offer(c, 1) /\ InTime
    \/ \E c \in UserCredentials : get_trade_offers(c, None, None, None)
    \/ \E c \in UserCredentials : get_trade_offer(c, 1)

SpecUsers == Init /\ [][NextUsers]_vars

------------------------------------------------------------------------------
(* Concurrent respond and cancel requests.  FastAPI runs each handler in a worker  *)
(* thread with a session of its own; the store is read-committed.  A handler reads *)
(* the offer row into its session, checks the row it read, and later writes the    *)
(* columns it assigned with UPDATE ... WHERE id = offer_id and commits.            *)

Procs == {"r1", "r2"}

NoRow == [status |-> ""]

Idle ==
    [pc |-> "idle", op |-> "", current_user |-> 0, offer_id |-> 0, status |-> "",
     offer |-> NoRow, code |-> 0]

\* the handler is done: the response is sent and the session is closed
Done(proc, code) == [proc EXCEPT !.pc = "done", !.code = code, !.offer = NoRow]

\* a PATCH or DELETE /trade-offers/{offer_id} arrives and its caller is authenticated
Receive(p, credentials, op, offer_id, status) ==
    LET current_user == get_current_authenticated_user(credentials)
    IN  /\ procs[p].pc = "idle"
        /\ procs' = [procs EXCEPT ![p] =
              IF current_user <= 0
              THEN Done([Idle EXCEPT !.op = op, !.offer_id = offer_id],
                        AuthenticationFailure(current_user).code)
              ELSE [Idle EXCEPT !.pc = "query", !.op = op, !.current_user = current_user,
                                !.offer_id = offer_id, !.status = status]]
        /\ UNCHANGED <<users, games, offers, now, resp>>

\* offer = db.query(TradeOffer).filter(TradeOffer.id == offer_id).first()
Query(p) ==
    /\ procs[p].pc = "query"
    /\ procs' = [procs EXCEPT ![p] =
          IF procs[p].offer_id \notin DOMAIN offers
          THEN Done(@, 404)
          ELSE [@ EXCEPT !.pc = "check", !.offer = offers[procs[p].offer_id]]]
    /\ UNCHANGED <<users, games, offers, now, resp>>

\* the caller and status checks, on the row the session holds
Check(p) ==
    LET proc == procs[p]
        r == IF proc.op = "respond"
             THEN respond_to_trade_offer_row_checks(proc.current_user, proc.offer, proc.status)
             ELSE cancel_trade_offer_row_checks(proc.current_user, proc.offer)
    IN  /\ proc.pc = "check"
        /\ procs' = [procs EXCEPT ![p] =
              IF r.code \in {200, 204} THEN [@ EXCEPT !.pc = "commit"] ELSE Done(@, r.code)]
        /\ UNCHANGED <<users, games, offers, now, resp>>

\* the assignments and db.commit(): the UPDATE writes the assigned columns of the row
Commit(p) ==
    LET proc == procs[p]
    IN  /\ proc.pc = "commit"
        /\ IF proc.op = "respond"
           THEN /\ offers' = [offers EXCEPT ![proc.offer_id] = responded_offer(@, proc.status)]
                /\ now' = now + 2
                /\ procs' = [procs EXCEPT ![p] = Done(@, 200)]
           ELSE /\ offers' = [offers EXCEPT ![proc.offer_id] = cancelled_offer(@)]
                /\ now' = now + 1
                /\ procs' = [procs EXCEPT ![p] = Done(@, 204)]
        /\ UNCHANGED <<users, games, resp>>

InitConc ==
    /\ users = << >>
    /\ games = << >>
    /\ offers = << >>
    /\ now = 1
    /\ resp = Response("start", 0, "", "")
    /\ procs = [p \in Procs |-> Idle]

\* Clients ask Bob (2) for his game (2); then two requests on the offers run concurrently.
NextConc ==
    \/ create_sample_data
    \/ \E c \in Authenticated : create_trade_offer(c, 2, 2, "None") /\ InTime
    \/ \E p \in Procs, c \in Credentials, o \in DOMAIN offers, s \in {ACCEPTED, REJECTED} :
          Receive(p, c, "respond", o, s)
    \/ \E p \in Procs, c \in Credentials, o \in OfferIdInputs :
          Receive(p, c, "cancel", o, CANCELLED)
    \/ \E p \in Procs : Query(p)
    \/ \E p \in Procs : Check(p)
    \/ \E p \in Procs : Commit(p)

SpecConc == InitConc /\ [][NextConc]_vars

\* C2: of two status-changing requests on the same offer that run concurrently, at most
\* one returns success.
C2_AtMostOneSucceeds ==
    \A p, q \in Procs :
        (/\ p # q
         /\ procs[p].pc = "done" /\ procs[q].pc = "done"
         /\ procs[p].offer_id = procs[q].offer_id)
            => ~(procs[p].code \in {200, 204} /\ procs[q].code \in {200, 204})

------------------------------------------------------------------------------
(* Concurrent create requests.  A handler runs its queries (the requested game, the *)
(* recipient, the caller's games, the PENDING offer with the tuple) on the          *)
(* committed rows and later inserts the row it built and commits; the trade_offers  *)
(* table has no unique constraint on the tuple.                                     *)

IdleCreate ==
    [pc |-> "idle", current_user |-> 0, requested_game_id |-> 0, recipient_id |-> 0,
     offered_game_id |-> 0, message |-> "None", code |-> 0]

\* the handler is done: the response is sent
DoneCreate(proc, code) == [proc EXCEPT !.pc = "done", !.code = code]

\* POST /trade-offers bodies <<requested_game_id, recipient_id>> of the concurrent
\* requests: Bob's game from Bob, Carol's game from Carol, a game of no row
ConcurrentCreateInputs == { <<2, 2>>, <<3, 3>>, <<Len(games_data) + 1, 1>> }

\* a POST /trade-offers arrives and its caller is authenticated
ReceiveCreate(p, credentials, requested_game_id, recipient_id, message) ==
    LET current_user == get_current_authenticated_user(credentials)
        request == [IdleCreate EXCEPT !.requested_game_id = requested_game_id,
                                      !.recipient_id = recipient_id,
                                      !.message = message]
    IN  /\ procs[p].pc = "idle"
        /\ procs' = [procs EXCEPT ![p] =
              IF current_user <= 0
              THEN DoneCreate(request, AuthenticationFailure(current_user).code)
              ELSE [request EXCEPT !.pc = "validate", !.current_user = current_user]]
        /\ UNCHANGED <<users, games, offers, now, resp>>

\* the queries and checks of the handler, up to `if existing_offer:`
ValidateCreate(p) ==
    LET proc == procs[p]
        r == create_trade_offer_checks(proc.current_user, proc.requested_game_id,
                                       proc.recipient_id)
    IN  /\ proc.pc = "validate"
        /\ procs' = [procs EXCEPT ![p] =
              IF r.code = 201
              THEN [@ EXCEPT !.pc = "insert",
                             !.offered_game_id = offered_game(proc.current_user)]
              ELSE DoneCreate(@, r.code)]
        /\ UNCHANGED <<users, games, offers, now, resp>>

\* db.add(new_offer) and db.commit(): the INSERT of the row the handler built
InsertCreate(p) ==
    LET proc == procs[p]
        row == [new_offer(proc.current_user, proc.requested_game_id, proc.recipient_id,
                          proc.message)
                   EXCEPT !.offered_game_id = proc.offered_game_id]
    IN  /\ proc.pc = "insert"
        /\ offers' = Append(offers, row)
        /\ now' = now + 1
        /\ procs' = [procs EXCEPT ![p] = DoneCreate(@, 201)]
        /\ UNCHANGED <<users, games, resp>>

InitCreateConc ==
    /\ users = << >>
    /\ games = << >>
    /\ offers = << >>
    /\ now = 1
    /\ resp = Response("start", 0, "", "")
    /\ procs = [p \in Procs |-> IdleCreate]

NextCreateConc ==
    \/ create_sample_data
    \/ \E p \in Procs, c \in Credentials, i \in ConcurrentCreateInputs, m \in Messages :
          ReceiveCreate(p, c, i[1], i[2], m)
    \/ \E p \in Procs : ValidateCreate(p)
    \/ \E p \in Procs : InsertCreate(p)

SpecCreateConc == InitCreateConc /\ [][NextCreateConc]_vars

------------------------------------------------------------------------------
(* Properties of the trade-offer lifecycle *)

Terminal == {ACCEPTED, REJECTED, CANCELLED}

\* every offer row of the state before a step is still there after it
OffersKept == DOMAIN offers \subseteq DOMAIN offers'

\* the status changes of one step are PENDING -> ACCEPTED, REJECTED or CANCELLED
LegalTransitions ==
    /\ OffersKept
    /\ \A i \in DOMAIN offers :
          offers'[i].status # offers[i].status
              => offers[i].status = PENDING /\ offers'[i].status \in Terminal

\* on an offer in a terminal status no respond and no cancel succeeds, whoever calls;
\* the recipient's respond and the proposer's cancel get 400 with the current status
TerminalRefuses ==
    \A i \in DOMAIN offers :
        offers[i].status \in Terminal =>
            \A c \in Credentials :
                LET current_user == get_current_authenticated_user(c)
                    cancel == cancel_trade_offer_result(c, i)
                IN  /\ cancel.code # 204
                    /\ current_user = offers[i].proposer_id =>
                            cancel = Result(400, "Cannot cancel an offer with status: ",
                                            offers[i].status)
                    /\ \A s \in TradeOfferStatus :
                          LET respond == respond_to_trade_offer_result(c, i, s)
                          IN  /\ respond.code # 200
                              /\ current_user = offers[i].recipient_id =>
                                      respond = Result(400,
                                          "Cannot respond to an offer with status: ",
                                          offers[i].status)

\* C1: the only status changes that ever occur are PENDING -> ACCEPTED, REJECTED or
\* CANCELLED, and on an offer in a terminal status every respond (any target status)
\* and every cancel, by any caller, fails (with 400 naming the current status when the
\* caller is the required party), so the status never changes again.
C1_TerminalIsFinal == []TerminalRefuses /\ [][LegalTransitions]_vars

\* a respond by the recipient was refused with 400 naming the terminal status
C1_Witness ==
    \E i \in DOMAIN offers :
        /\ offers[i].status \in Terminal
        /\ resp = Response("respond", 400, "Cannot respond to an offer with status: ",
                           offers[i].status)

------------------------------------------------------------------------------
(* Uniqueness of PENDING offers *)

Tuple(offer) ==
    <<offer.proposer_id, offer.recipient_id, offer.offered_game_id, offer.requested_game_id>>

\* a request that ends in an error adds no offer; a 201 adds exactly one row
CreateAddsOnlyOn201 ==
    resp'.op = "create" =>
        IF resp'.code = 201
        THEN Len(offers') = Len(offers) + 1 /\ SubSeq(offers', 1, Len(offers)) = offers
        ELSE offers' = offers

NoDuplicatePending ==
    \A i, j \in DOMAIN offers :
        (i # j /\ offers[i].status = PENDING /\ offers[j].status = PENDING)
            => Tuple(offers[i]) # Tuple(offers[j])

\* a create whose tuple (caller, recipient, the caller's first game, requested game)
\* is that of a PENDING offer gets 400
DuplicateRefused ==
    \A c \in Authenticated, g \in GameIdInputs, u \in UserIdInputs :
        LET current_user == get_current_authenticated_user(c)
        IN  (/\ users_games(current_user) # << >>
             /\ \E i \in DOMAIN offers :
                   /\ offers[i].status = PENDING
                   /\ Tuple(offers[i]) = <<current_user, u, offered_game(current_user), g>>)
                => create_trade_offer_result(c, g, u).code = 400

\* C3: there are never two distinct PENDING offers with the same (proposer_id,
\* recipient_id, offered_game_id, requested_game_id); a create whose tuple matches an
\* existing PENDING offer fails with 400 and adds no offer.
C3_OnePendingPerTuple ==
    [](NoDuplicatePending /\ DuplicateRefused) /\ [][CreateAddsOnlyOn201]_vars

\* a create was refused as a duplicate of a PENDING offer
C3_Witness ==
    /\ resp = Response("create", 400, "A pending trade offer for these games already exists", "")
    /\ \E i \in DOMAIN offers : offers[i].status = PENDING

\* C4: when an offer has reached a terminal status, no PENDING offer has its tuple, and
\* ownership is as it was at its creation (the requested game is the recipient's and the
\* offered game is the first game of the proposer), a new create by the same proposer for
\* the same requested game and recipient succeeds with a PENDING offer of the same tuple.
C4_RecreateAfterTerminal ==
    \A i \in DOMAIN offers :
        LET offer == offers[i]
        IN  (/\ offer.status \in Terminal
             /\ \A j \in DOMAIN offers :
                   offers[j].status = PENDING => Tuple(offers[j]) # Tuple(offer)
             /\ games[offer.requested_game_id].owner_id = offer.recipient_id
             /\ users_games(offer.proposer_id) # << >>
             /\ offered_game(offer.proposer_id) = offer.offered_game_id)
            => \A c \in Credentials, m \in Messages :
                 get_current_authenticated_user(c) = offer.proposer_id =>
                    /\ create_trade_offer_result(c, offer.requested_game_id,
                                                 offer.recipient_id) = Ok(201)
                    /\ LET new == new_offer(offer.proposer_id, offer.requested_game_id,
                                            offer.recipient_id, m)
                       IN  Tuple(new) = Tuple(offer) /\ new.status = PENDING

\* an offer was created again with the tuple of a terminal offer
C4_Witness ==
    /\ resp.op = "create" /\ resp.code = 201
    /\ Len(offers) >= 2
    /\ offers[Len(offers)].status = PENDING
    /\ \E i \in 1..(Len(offers) - 1) :
          offers[i].status \in Terminal /\ Tuple(offers[i]) = Tuple(offers[Len(offers)])

------------------------------------------------------------------------------
(* Who may respond and who may cancel *)

\* on a PENDING offer, a respond with ACCEPTED or REJECTED by an authenticated caller
\* gets 200 when the caller is the recipient and 403 otherwise
OnlyRecipientResponds ==
    \A i \in DOMAIN offers :
        offers[i].status = PENDING =>
            \A c \in Authenticated, s \in {ACCEPTED, REJECTED} :
                respond_to_trade_offer_result(c, i, s) =
                    IF get_current_authenticated_user(c) = offers[i].recipient_id
                    THEN Ok(200)
                    ELSE HTTPException(403, "Only the recipient can respond to this trade offer")

\* a respond that does not end in 200 changes no offer, and an offer goes from PENDING
\* to ACCEPTED or REJECTED only by a respond of its recipient
RespondedByRecipient ==
    /\ (resp'.op = "respond" /\ resp'.code # 200) => offers' = offers
    /\ \A i \in DOMAIN offers :
          (offers[i].status = PENDING /\ offers'[i].status \in {ACCEPTED, REJECTED}) =>
              /\ resp'.op = "respond" /\ resp'.code = 200
              /\ \E c \in Credentials :
                    respond_to_trade_offer(c, i, offers'[i].status)
              /\ \A c \in Credentials, s \in TradeOfferStatus :
                    respond_to_trade_offer(c, i, s) =>
                        get_current_authenticated_user(c) = offers[i].recipient_id

\* C5: a respond with target ACCEPTED or REJECTED on an existing PENDING offer succeeds
\* if and only if the authenticated caller is the offer's recipient; every other caller,
\* the proposer included, gets 403 and the offer is unchanged; so every ACCEPTED or
\* REJECTED offer was moved there by a request of its recipient.
C5_OnlyRecipientResponds == []OnlyRecipientResponds /\ [][RespondedByRecipient]_vars

\* the proposer of a PENDING offer tried to respond and got 403
C5_Witness ==
    /\ resp = Response("respond", 403, "Only the recipient can respond to this trade offer", "")
    /\ \E i \in DOMAIN offers : offers[i].status = PENDING

\* on a PENDING offer, a cancel by an authenticated caller gets 204 when the caller is
\* the proposer and 403 otherwise
OnlyProposerCancels ==
    \A i \in DOMAIN offers :
        offers[i].status = PENDING =>
            \A c \in Authenticated :
                cancel_trade_offer_result(c, i) =
                    IF get_current_authenticated_user(c) = offers[i].proposer_id
                    THEN Ok(204)
                    ELSE HTTPException(403, "Only the proposer can cancel this trade offer")

\* a cancel that does not end in 204 changes no offer, and an offer goes from PENDING
\* to CANCELLED only by a cancel of its proposer
CancelledByProposer ==
    /\ (resp'.op = "cancel" /\ resp'.code # 204) => offers' = offers
    /\ \A i \in DOMAIN offers :
          (offers[i].status = PENDING /\ offers'[i].status = CANCELLED) =>
              /\ resp'.op = "cancel" /\ resp'.code = 204
              /\ \E c \in Credentials : cancel_trade_offer(c, i)
              /\ \A c \in Credentials :
                    cancel_trade_offer(c, i) =>
                        get_current_authenticated_user(c) = offers[i].proposer_id

\* C6: a cancel on an existing PENDING offer succeeds if and only if the authenticated
\* caller is the offer's proposer; every other caller, the recipient included, gets 403
\* and the offer is unchanged; so every CANCELLED offer was moved there by a request of
\* its proposer.
C6_OnlyProposerCancels == []OnlyProposerCancels /\ [][CancelledByProposer]_vars

\* the recipient of a PENDING offer tried to cancel and got 403
C6_Witness ==
    /\ resp = Response("cancel", 403, "Only the proposer can cancel this trade offer", "")
    /\ \E i \in DOMAIN offers : offers[i].status = PENDING

------------------------------------------------------------------------------
(* Validation of a create *)

\* no create naming its own caller as the recipient succeeds
SelfTradeRefused ==
    \A c \in Authenticated, g \in GameIdInputs, u \in UserIdInputs :
        get_current_authenticated_user(c) = u =>
            create_trade_offer_result(c, g, u).code \in {400, 404}

PartiesDiffer == \A i \in DOMAIN offers : offers[i].proposer_id # offers[i].recipient_id

\* C7: a create whose authenticated caller is the supplied recipient_id never succeeds,
\* whatever games exist and whoever owns them, and adds no offer; every offer has
\* proposer_id # recipient_id.
C7_NoSelfTrade == [](SelfTradeRefused /\ PartiesDiffer) /\ [][CreateAddsOnlyOn201]_vars

\* a caller asked for a game of their own, naming themself, and was refused as a self-trade
C7_Witness ==
    resp = Response("create", 400, "Cannot create a trade offer for yourself", "")

\* C8 as stated: whenever the requested game's owner is not the supplied recipient_id,
\* the create fails with 400.
C8_Original ==
    \A c \in Authenticated, g \in DOMAIN games, u \in UserIdInputs :
        games[g].owner_id # u => create_trade_offer_result(c, g, u).code = 400

\* a create for a game that is not the supplied recipient's is refused: 400 when the
\* recipient is a user, 404 when it is not
WrongOwnerRefused ==
    \A c \in Authenticated, g \in DOMAIN games, u \in UserIdInputs :
        games[g].owner_id # u =>
            create_trade_offer_result(c, g, u) =
                IF u \in DOMAIN users
                THEN HTTPException(400, "Requested game is not owned by the specified recipient")
                ELSE HTTPException(404, "Recipient user not found")

\* the row a step adds, when it adds one
Created == offers'[Len(offers')]

\* at the moment an offer is created its requested game is owned by its recipient
RequestedOwnedAtCreation ==
    Len(offers') > Len(offers) =>
        games[Created.requested_game_id].owner_id = Created.recipient_id

\* C8 (amended): a create whose requested game's current owner_id differs from the
\* supplied recipient_id always fails, with 400 when the recipient_id is a user's and
\* with 404 when it is no user's, and adds no offer; at the moment an offer is created
\* its requested game is owned by its recipient.
C8_WrongOwnerRefused ==
    []WrongOwnerRefused /\ [][CreateAddsOnlyOn201 /\ RequestedOwnedAtCreation]_vars

\* a create was refused because the requested game is not the recipient's
C8_Witness ==
    resp = Response("create", 400, "Requested game is not owned by the specified recipient", "")

\* C9 as stated: a create by a caller who owns no game fails with 400.
C9_Original ==
    \A c \in Authenticated, g \in GameIdInputs, u \in UserIdInputs :
        users_games(get_current_authenticated_user(c)) = << >> =>
            create_trade_offer_result(c, g, u).code = 400

\* a create by a caller who owns no game is refused: 404 when the requested game or
\* the recipient does not exist, 400 otherwise
NoGameRefused ==
    \A c \in Authenticated, g \in GameIdInputs, u \in UserIdInputs :
        users_games(get_current_authenticated_user(c)) = << >> =>
            create_trade_offer_result(c, g, u).code =
                IF g \in DOMAIN games /\ u \in DOMAIN users THEN 400 ELSE 404

\* the row of a successful create: PENDING, responded_at null, the caller as proposer,
\* and as offered game the game of least id among those the caller owns
CreatedRow ==
    Len(offers') > Len(offers) =>
        /\ resp'.op = "create" /\ resp'.code = 201
        /\ Created.status = PENDING
        /\ Created.responded_at = NULL
        /\ games[Created.offered_game_id].owner_id = Created.proposer_id
        /\ \A g \in DOMAIN games :
              games[g].owner_id = Created.proposer_id => Created.offered_game_id <= g
        /\ \A c \in Credentials, g \in GameIdInputs, u \in UserIdInputs, m \in Messages :
              create_trade_offer(c, g, u, m) =>
                  Created.proposer_id = get_current_authenticated_user(c)

\* C9 (amended): a create by a caller who owns no game fails, with 400 when the
\* requested game and the recipient exist and with 404 otherwise, and adds no offer;
\* every successful create stores an offer with status PENDING, responded_at null,
\* proposer_id the caller and offered_game_id the first game, in the store's natural
\* (id) order, among the games the caller owns at that moment.
C9_FirstOwnedGameOffered ==
    []NoGameRefused /\ [][CreateAddsOnlyOn201 /\ CreatedRow]_vars

\* an offer was created by a proposer who owns more than one game
C9_Witness ==
    /\ resp.op = "create" /\ resp.code = 201
    /\ offers[Len(offers)].status = PENDING
    /\ \E g, h \in DOMAIN games :
          /\ g # h
          /\ games[g].owner_id = offers[Len(offers)].proposer_id
          /\ games[h].owner_id = offers[Len(offers)].proposer_id

------------------------------------------------------------------------------
(* Timestamps *)

\* C10: an offer's responded_at is non-null if and only if its status is ACCEPTED or
\* REJECTED: null while PENDING, stamped by a successful respond, left null by a
\* successful cancel.
C10_RespondedAtIffResponded ==
    \A i \in DOMAIN offers :
        offers[i].responded_at # NULL <=> offers[i].status \in {ACCEPTED, REJECTED}

\* an offer was cancelled and its responded_at is null
C10_Witness ==
    /\ resp.op = "cancel" /\ resp.code = 204
    /\ \E i \in DOMAIN offers :
          offers[i].status = CANCELLED /\ offers[i].responded_at = NULL

------------------------------------------------------------------------------
(* The requested status of a respond *)

\* the recipient's respond on a PENDING offer with a requested status of PENDING or
\* CANCELLED gets 400, and a PENDING offer has no responded_at
InvalidTargetRefused ==
    \A i \in DOMAIN offers :
        offers[i].status = PENDING =>
            /\ offers[i].responded_at = NULL
            /\ \A c \in Authenticated, s \in {PENDING, CANCELLED} :
                  get_current_authenticated_user(c) = offers[i].recipient_id =>
                      respond_to_trade_offer_result(c, i, s) =
                          HTTPException(400, "Recipients can only accept or reject offers")

\* a refused respond changes no offer, and no respond makes an offer CANCELLED
RespondNeverCancels ==
    resp'.op = "respond" =>
        /\ resp'.code # 200 => offers' = offers
        /\ \A i \in DOMAIN offers :
              offers'[i].status = CANCELLED => offers[i].status = CANCELLED

\* C11: a respond by the recipient on a PENDING offer with requested status PENDING or
\* CANCELLED is refused with 400 and the offer stays PENDING with responded_at null; no
\* respond ever moves an offer to CANCELLED.
C11_InvalidTargetRefused == []InvalidTargetRefused /\ [][RespondNeverCancels]_vars

\* the recipient of a PENDING offer asked for PENDING or CANCELLED and got 400
C11_Witness ==
    /\ resp = Response("respond", 400, "Recipients can only accept or reject offers", "")
    /\ \E i \in DOMAIN offers : offers[i].status = PENDING /\ offers[i].responded_at = NULL

------------------------------------------------------------------------------
(* Reading offers *)

Parties(offer) == {offer.proposer_id, offer.recipient_id}

\* the ids of the rows of a response body
BodyIds(body) == {body[k].id : k \in DOMAIN body}

\* the rows of a body are the stored rows
BodyIsStored(body) ==
    \A k \in DOMAIN body :
        /\ body[k].id \in DOMAIN offers
        /\ body[k] = TradeOfferResponse(body[k].id, offers[body[k].id])

NewestFirst(body) ==
    \A k \in DOMAIN body :
        k < Len(body) => body[k].created_at >= body[k + 1].created_at

\* the list without filters is, for every authenticated caller, the offers the caller
\* is a party to, each once, newest first
ListIsCallersOffers ==
    \A c \in Authenticated :
        LET current_user == get_current_authenticated_user(c)
            r == get_trade_offers_response(c, None, None, None)
        IN  /\ r.code = 200
            /\ BodyIsStored(r.body)
            /\ BodyIds(r.body) = {i \in DOMAIN offers : current_user \in Parties(offers[i])}
            /\ Len(r.body) = Cardinality(BodyIds(r.body))
            /\ NewestFirst(r.body)

\* the response of a list without filters is what the operation computes
ListResponds ==
    (resp'.op = "list" /\ resp'.code = 200) =>
        /\ BodyIsStored(resp'.body) /\ NewestFirst(resp'.body)
        /\ \A c \in Credentials :
              get_trade_offers(c, None, None, None) =>
                  BodyIds(resp'.body) =
                      {i \in DOMAIN offers :
                          get_current_authenticated_user(c) \in Parties(offers[i])}

\* C12: with no filters the list returns exactly the stored offers in which the
\* authenticated caller is the proposer or the recipient, never an offer between two
\* other users, ordered by created_at descending.
C12_ListIsCallersOffers == []ListIsCallersOffers /\ [][ListResponds]_vars

\* a list returned two offers or more while an offer between two other users was stored
C12_Witness ==
    /\ resp.op = "list" /\ resp.code = 200
    /\ Len(resp.body) >= 2
    /\ resp.body[1].created_at > resp.body[2].created_at
    /\ \E i \in DOMAIN offers : i \notin BodyIds(resp.body)

\* a single read gets 404 exactly for an id of no offer, 403 exactly for an offer the
\* caller is no party to, and the offer otherwise
ReadCodes ==
    \A c \in Authenticated, o \in OfferIdInputs :
        LET current_user == get_current_authenticated_user(c)
            r == get_trade_offer_response(c, o)
        IN  /\ r.code \in {200, 403, 404}
            /\ r.code = 404 <=> o \notin DOMAIN offers
            /\ r.code = 403 <=>
                  (o \in DOMAIN offers /\ current_user \notin Parties(offers[o]))
            /\ r.code = 200 => r.body = <<TradeOfferResponse(o, offers[o])>>
            /\ r.code # 200 => r.body = << >>

\* the filters a caller can aim at an offer: none, the offer's own status, recipient
\* and proposer, and the id 0
FiltersAt(offer) ==
    {None, Some(offer.status)}
        \X {None, Some(0), Some(offer.recipient_id)}
        \X {None, Some(0), Some(offer.proposer_id)}

\* an offer is in no list of a caller who is no party to it, whatever the filters
ListShowsOnlyOwn ==
    \A i \in DOMAIN offers, c \in Authenticated :
        get_current_authenticated_user(c) \notin Parties(offers[i]) =>
            \A f \in FiltersAt(offers[i]) :
                i \notin BodyIds(get_trade_offers_response(c, f[1], f[2], f[3]).body)

\* the offers of a response to a read or a list are offers of the caller
ReadResponds ==
    /\ (resp'.op = "read" /\ resp'.code = 200) =>
            \A c \in Credentials :
                get_trade_offer(c, resp'.body[1].id) =>
                    get_current_authenticated_user(c) \in Parties(resp'.body[1])
    /\ (resp'.op = "list" /\ resp'.body # << >>) =>
            \A c \in Credentials, f \in ListInputs :
                get_trade_offers(c, f[1], f[2], f[3]) =>
                    \A k \in DOMAIN resp'.body :
                        get_current_authenticated_user(c) \in Parties(resp'.body[k])

\* C13: a single read returns 404 exactly when no offer has the id, 403 exactly when
\* the offer exists and the caller is neither its proposer nor its recipient, and the
\* offer otherwise; no caller receives an offer they are no party to, from the single
\* read or from the list under any filters.
C13_OnlyPartiesRead == [](ReadCodes /\ ListShowsOnlyOwn) /\ [][ReadResponds]_vars

\* a user read an offer between two other users and got 403
C13_Witness ==
    /\ resp = Response("read", 403, "You are not authorized to view this trade offer", "")
    /\ \E i \in DOMAIN offers : TRUE

------------------------------------------------------------------------------
(* Offers are never removed *)

\* a successful cancel leaves the row in place, CANCELLED
CancelKeepsRow ==
    (resp'.op = "cancel" /\ resp'.code = 204) =>
        /\ DOMAIN offers' = DOMAIN offers
        /\ \E i \in DOMAIN offers :
              offers[i].status = PENDING /\ offers'[i].status = CANCELLED

\* a CANCELLED offer is returned to its proposer and its recipient by the single read
\* and by the list
CancelledStillRead ==
    \A i \in DOMAIN offers :
        offers[i].status = CANCELLED =>
            \A c \in Authenticated :
                get_current_authenticated_user(c) \in Parties(offers[i]) =>
                    /\ get_trade_offer_response(c, i) =
                          ResponseWith("read", 200, <<TradeOfferResponse(i, offers[i])>>)
                    /\ i \in BodyIds(get_trade_offers_response(c, None, None, None).body)

\* C14: no create, respond or cancel removes an offer; after a successful cancel the
\* offer is still stored, with status CANCELLED, and the read operations still return
\* it to its proposer and its recipient.
C14_NeverDeleted == []CancelledStillRead /\ [][OffersKept /\ CancelKeepsRow]_vars

\* a list returned an offer that had been cancelled
C14_Witness ==
    /\ resp.op = "list" /\ resp.code = 200
    /\ \E k \in DOMAIN resp.body : resp.body[k].status = CANCELLED

------------------------------------------------------------------------------
(* Accepting an offer transfers nothing *)

\* a successful respond changes the offer it names and nothing else
RespondChangesOnlyOffer ==
    (resp'.op = "respond" /\ resp'.code = 200) =>
        /\ games' = games
        /\ users' = users
        /\ DOMAIN offers' = DOMAIN offers
        /\ \A i \in DOMAIN offers : i # resp'.body[1].id => offers'[i] = offers[i]

\* C15: a successful respond with ACCEPTED changes only the offer: every game, the
\* offered and the requested game included, has the owner_id it had before.
C15_AcceptTransfersNothing == [][RespondChangesOnlyOffer]_vars

\* an offer was accepted and both of its games are where they were
C15_Witness ==
    /\ resp.op = "respond" /\ resp.code = 200
    /\ resp.body[1].status = ACCEPTED
    /\ games[resp.body[1].offered_game_id].owner_id = resp.body[1].proposer_id
    /\ games[resp.body[1].requested_game_id].owner_id = resp.body[1].recipient_id

------------------------------------------------------------------------------
(* The order of the checks of a create *)

\* the result of a create is the error of the first check that fails
ChecksInOrder ==
    \A c \in Authenticated, g \in GameIdInputs, u \in UserIdInputs :
        LET current_user == get_current_authenticated_user(c)
            r == create_trade_offer_result(c, g, u)
            check1 == g \in DOMAIN games
            check2 == u \in DOMAIN users
            check3 == games[g].owner_id = u
            check4 == current_user # u
            check5 == \E h \in DOMAIN games : games[h].owner_id = current_user
            check6 == ~\E i \in DOMAIN offers :
                          /\ offers[i].status = PENDING
                          /\ Tuple(offers[i]) = <<current_user, u, offered_game(current_user), g>>
        IN  IF ~check1 THEN r = HTTPException(404, "Requested game not found")
            ELSE IF ~check2 THEN r = HTTPException(404, "Recipient user not found")
            ELSE IF ~check3
            THEN r = HTTPException(400, "Requested game is not owned by the specified recipient")
            ELSE IF ~check4 THEN r = HTTPException(400, "Cannot create a trade offer for yourself")
            ELSE IF ~check5
            THEN r = HTTPException(400, "You must own at least one game to create a trade offer")
            ELSE IF ~check6
            THEN r = HTTPException(400, "A pending trade offer for these games already exists")
            ELSE r = Ok(201)

\* a caller who names themself as recipient for a game they do not own
SelfAndNotOwner(c, g, u) ==
    /\ get_current_authenticated_user(c) = u
    /\ g \in DOMAIN games /\ games[g].owner_id # u

SelfAndNotOwnerGetsNotOwned ==
    \A c \in Authenticated, g \in GameIdInputs, u \in UserIdInputs :
        SelfAndNotOwner(c, g, u) =>
            create_trade_offer_result(c, g, u).msg =
                "Requested game is not owned by the specified recipient"

\* C20: create evaluates (1) requested game exists, (2) recipient exists, (3) requested
\* game owned by the recipient, (4) caller differs from recipient, (5) caller owns a
\* game, (6) no matching PENDING offer, in this order, and reports the error of the
\* first check that fails (404 for 1 and 2, 400 for 3 to 6); a caller who names themself
\* as recipient for a game they do not own gets the 'not owned by recipient' error.
C20_ChecksInOrder == ChecksInOrder /\ SelfAndNotOwnerGetsNotOwned

\* a create that fails check 3 and would fail check 4 was answered with the error of 3
C20_Witness ==
    /\ resp = Response("create", 400,
                       "Requested game is not owned by the specified recipient", "")
    /\ \E c \in Authenticated, g \in GameIdInputs, u \in UserIdInputs :
          SelfAndNotOwner(c, g, u)

------------------------------------------------------------------------------
(* Authentication and the users table *)

\* the credential pair resolves to a user: the email is a user's and the password is
\* the one stored for that user
Resolves(credentials) ==
    \E u \in DOMAIN users :
        /\ users[u].email = credentials.username
        /\ users[u].password.text = credentials.password

\* C16: every trade-offer operation (list, read, create, respond, cancel) invoked with
\* a credential pair that resolves to no user (unknown email, or a password that is not
\* the one stored for the user with that email) returns 401 and carries no offer.
C16_UnresolvedGets401 ==
    \A c \in UserCredentials :
        ~Resolves(c) =>
            /\ get_trade_offers_response(c, None, None, None).code = 401
            /\ get_trade_offers_response(c, None, None, None).body = << >>
            /\ get_trade_offer_response(c, 1).code = 401
            /\ get_trade_offer_response(c, 1).body = << >>
            /\ create_trade_offer_result(c, 2, 2).code = 401
            /\ respond_to_trade_offer_result(c, 1, ACCEPTED).code = 401
            /\ cancel_trade_offer_result(c, 1).code = 401

\* C17: in every reachable state the password stored for every user, whether created
\* by POST /users, written by PUT /users/{id} or seeded, is the hash of the supplied
\* password and never the supplied text itself.
C17_PasswordsHashed ==
    \A u \in DOMAIN users :
        users[u].password = get_password_hash(users[u].password.text)

\* an update of a user leaves the user's email as it was
EmailKept ==
    resp'.op \in {"update_user", "replace_user"} =>
        \A u \in DOMAIN users \cap DOMAIN users' : users'[u].email = users[u].email

\* C18: no update of a user, neither PATCH /users/{id} nor PUT /users/{id}, changes
\* the user's email.
C18_EmailNeverChanges == [][EmailKept]_vars

EmailsUnique ==
    \A u, v \in DOMAIN users : u # v => users[u].email # users[v].email

\* a create with an email some user holds, and a replace with an email another user
\* holds, get 400
EmailConflictRefused ==
    \A user \in UserCreateInputs :
        /\ (\E u \in DOMAIN users : users[u].email = user.email) =>
               create_user_checks(user) = HTTPException(400, "Email already registered")
        /\ \A user_id \in DOMAIN users :
               (\E u \in DOMAIN users \ {user_id} : users[u].email = user.email) =>
                   replace_user_checks(user_id, user) =
                       HTTPException(400, "Email already in use by another user")

\* a create or replace of a user that ends in 400 changes nothing
RefusedUserUnchanged ==
    (resp'.op \in {"create_user", "replace_user"} /\ resp'.code = 400) =>
        UNCHANGED <<users, games, offers>>

\* C19: with every user request executed atomically, no two distinct users ever have
\* the same email; a create or replace that would give a user an email held by another
\* user fails with 400 and changes nothing.
C19_EmailsUnique == [](EmailsUnique /\ EmailConflictRefused) /\ [][RefusedUserUnchanged]_vars

\* a replace that would have given a user another user's email was refused
C19_Witness ==
    /\ resp = Response("replace_user", 400, "Email already in use by another user", "")
    /\ Cardinality(DOMAIN users) >= 2

------------------------------------------------------------------------------
(* The filters of the list *)

\* the filters clients supply: a status, recipient ids (0, a user's, no user's) and
\* proposer ids (0, a user's), each present or absent
SuppliedFilters ==
    {None, Some(PENDING), Some(ACCEPTED)}
        \X {None, Some(0), Some(2), Some(Len(users_data) + 1)}
        \X {None, Some(0), Some(1)}

\* C21: every filter the client supplies to the list is applied as an AND condition:
\* for every supplied recipient_id r (0 and ids of no user included), proposer_id p and
\* status s, each returned offer has recipient_id = r, proposer_id = p and status = s
\* respectively, and has the caller as a party.
C21_SuppliedFiltersApplied ==
    \A c \in Authenticated, f \in SuppliedFilters :
        LET body == get_trade_offers_response(c, f[1], f[2], f[3]).body
        IN  \A k \in DOMAIN body :
                /\ get_current_authenticated_user(c) \in Parties(body[k])
                /\ f[1] # None => body[k].status = f[1][1]
                /\ f[2] # None => body[k].recipient_id = f[2][1]
                /\ f[3] # None => body[k].proposer_id = f[3][1]

------------------------------------------------------------------------------
(* Concurrent creates *)

\* C22: of two create requests by the same proposer for the same recipient and
\* requested game that run concurrently, at most one succeeds, and the store never
\* holds two PENDING offers with the same tuple.
C22_AtMostOneCreateSucceeds ==
    /\ NoDuplicatePending
    /\ \A p, q \in Procs :
          (/\ p # q
           /\ procs[p].pc = "done" /\ procs[q].pc = "done"
           /\ procs[p].current_user = procs[q].current_user
           /\ procs[p].recipient_id = procs[q].recipient_id
           /\ procs[p].requested_game_id = procs[q].requested_game_id)
              => ~(procs[p].code = 201 /\ procs[q].code = 201)

------------------------------------------------------------------------------
(* Ownership is checked at creation only *)

\* one of the offer's games is no longer where it was when the offer was created
StaleOwnership(offer) ==
    \/ games[offer.requested_game_id].owner_id # offer.recipient_id
    \/ games[offer.offered_game_id].owner_id # offer.proposer_id

\* on a PENDING offer whose games have changed hands, the recipient's respond and the
\* proposer's cancel still succeed
StaleOfferStillAnswered ==
    \A i \in DOMAIN offers :
        (offers[i].status = PENDING /\ StaleOwnership(offers[i])) =>
            \A c \in Authenticated :
                /\ get_current_authenticated_user(c) = offers[i].recipient_id =>
                      \A s \in {ACCEPTED, REJECTED} :
                          respond_to_trade_offer_result(c, i, s) = Ok(200)
                /\ get_current_authenticated_user(c) = offers[i].proposer_id =>
                      cancel_trade_offer_result(c, i) = Ok(204)

\* a successful respond gives the offer the requested status, whoever owns its games
RespondTakesEffect ==
    (resp'.op = "respond" /\ resp'.code = 200) =>
        /\ offers[resp'.body[1].id].status = PENDING
        /\ offers'[resp'.body[1].id].status \in {ACCEPTED, REJECTED}
        /\ TradeOfferResponse(resp'.body[1].id, offers'[resp'.body[1].id]) = resp'.body[1]

\* C23: game ownership is checked only when an offer is created: a respond or cancel
\* on a PENDING offer by the required party succeeds whether or not the offered game is
\* still the proposer's and the requested game still the recipient's, so an offer can
\* be ACCEPTED while its requested game is owned by someone other than its recipient.
C23_OwnershipNotRevalidated == []StaleOfferStillAnswered /\ [][RespondTakesEffect]_vars

\* an offer was accepted while its requested game was owned by another user
C23_Witness ==
    /\ resp.op = "respond" /\ resp.code = 200
    /\ resp.body[1].status = ACCEPTED
    /\ games[resp.body[1].requested_game_id].owner_id # resp.body[1].recipient_id

------------------------------------------------------------------------------
(* Errors change nothing *)

\* a create, respond or cancel that ends in an error leaves users, games and offers
\* as they were
ErrorsChangeNothing ==
    (resp'.op \in {"create", "respond", "cancel"} /\ resp'.code \in {400, 401, 403, 404}) =>
        /\ users' = users
        /\ games' = games
        /\ offers' = offers

\* C24: every create, respond or cancel request that ends in an error (401, 403, 404
\* or 400) leaves the whole store unchanged: no offer is added, and no offer's status,
\* responded_at or updated_at and no user or game is modified.
C24_ErrorsChangeNothing == [][ErrorsChangeNothing]_vars

\* the proposer's cancel of an offer that is no longer PENDING was refused
C24_Witness ==
    /\ resp.op = "cancel" /\ resp.code = 400
    /\ \E i \in DOMAIN offers :
          offers[i].status \in Terminal /\ resp.detail.arg = offers[i].status

------------------------------------------------------------------------------
(* Registration and authentication *)

\* the user row of greatest id: the row the last POST /users inserted
LastUser == CHOOSE u \in DOMAIN users : \A v \in DOMAIN users : v <= u

\* C25: a user created through POST /users with (email, password), and not modified
\* since, who presents the same (email, password) on a trade-offer endpoint is
\* authenticated as that user.
C25_RegisteredAuthenticates ==
    (resp.op = "create_user" /\ resp.code = 201) =>
        \A c \in UserCredentials :
            (/\ c.username = users[LastUser].email
             /\ c.password = users[LastUser].password.text)
                => /\ get_current_authenticated_user(c) = LastUser
                   /\ create_trade_offer_result(c, 2, 2).code \notin {401, 500}
                   /\ get_trade_offers_response(c, None, None, None).code = 200

------------------------------------------------------------------------------
(* The fields of an offer that are fixed at creation *)

Fixed(offer) ==
    <<offer.proposer_id, offer.recipient_id, offer.offered_game_id,
      offer.requested_game_id, offer.created_at, offer.message>>

\* no step changes a fixed field of an offer
FixedFieldsKept ==
    \A i \in DOMAIN offers :
        i \in DOMAIN offers' /\ Fixed(offers'[i]) = Fixed(offers[i])

\* a successful respond or cancel changes one offer and no other
OneOfferChanged ==
    (resp'.op \in {"respond", "cancel"} /\ resp'.code \in {200, 204}) =>
        /\ DOMAIN offers' = DOMAIN offers
        /\ Cardinality({i \in DOMAIN offers : offers'[i] # offers[i]}) = 1

====
